---- MODULE Spec2Model ----
(***************************************************************************)
(* Semantic-Scholar-MCP server (src/server.py): fourteen tool functions,   *)
(* each validating its arguments, building one request and handing it to   *)
(* _request_json, which resolves the API key, issues one HTTP call and     *)
(* turns the response into a value or an exception.                        *)
(*                                                                         *)
(* A Python string is a sequence of tokens; the token " " is whitespace,   *)
(* every other token is an opaque run of non-whitespace characters.        *)
(* A Python value is a record tagged with its type.                        *)
(***************************************************************************)
EXTENDS Integers, Sequences, FiniteSets, TLC

\* ------------------------------------------------------------------
\* Bounds of the exploration
\* ------------------------------------------------------------------
\* A call passes at most MaxOptional optional arguments explicitly; the
\* other optional arguments take the defaults of the signature.
MaxOptional == 1
\* Longest sequence passed as the `fields` selector.
MaxSeqLen == 4

\* ------------------------------------------------------------------
\* Python values
\* ------------------------------------------------------------------
Val(tag, s, n, l) == [t |-> tag, s |-> s, n |-> n, l |-> l]
StrV(s) == Val("str", s, 0, <<>>)
IntV(n) == Val("int", <<>>, n, <<>>)
BoolV(b) == Val("bool", <<>>, IF b THEN 1 ELSE 0, <<>>)
None == Val("none", <<>>, 0, <<>>)
ListV(l) == Val("list", <<>>, 0, l)
TupleV(l) == Val("tuple", <<>>, 0, l)
\* a dict as the sequence key1, value1, key2, value2, ...
DictV(l) == Val("dict", <<>>, 0, l)
\* a key that is not in a dict / a parameter the function does not have
Missing == Val("missing", <<>>, 0, <<>>)

WS == " "

RECURSIVE lstrip(_)
lstrip(s) == IF s # <<>> /\ Head(s) = WS THEN lstrip(Tail(s)) ELSE s

RECURSIVE rstrip(_)
rstrip(s) ==
  IF s # <<>> /\ s[Len(s)] = WS THEN rstrip(SubSeq(s, 1, Len(s) - 1)) ELSE s

\* str.strip()
strip(s) == rstrip(lstrip(s))

\* bool(v): the truth value Python's `if v:` tests
Truthy(v) ==
  CASE v.t = "none" -> FALSE
    [] v.t = "missing" -> FALSE
    [] v.t = "str" -> v.s # <<>>
    [] v.t \in {"int", "bool"} -> v.n # 0
    [] OTHER -> v.l # <<>>

\* isinstance(v, str)
IsStr(v) == v.t = "str"

\* isinstance(v, int): bool is a subclass of int
IsInt(v) == v.t \in {"int", "bool"}

\* isinstance(v, (list, tuple))
IsListOrTuple(v) == v.t \in {"list", "tuple"}

\* str(v) for the values a field selector can hold
PyStr(v) ==
  CASE v.t = "str" -> v.s
    [] v.t = "int" -> <<ToString(v.n)>>
    [] v.t = "bool" -> IF v.n = 1 THEN <<"True">> ELSE <<"False">>
    [] v.t = "none" -> <<"None">>
    [] OTHER -> <<"<object>">>

\* ",".join(parts)
RECURSIVE Join(_)
Join(parts) ==
  IF parts = <<>> THEN <<>>
  ELSE IF Len(parts) = 1 THEN parts[1]
  ELSE parts[1] \o <<",">> \o Join(Tail(parts))

\* the comprehension without the filter: blank entries stay, stripped
RECURSIVE StrippedEntries_KeepBlank(_)
StrippedEntries_KeepBlank(l) ==
  IF l = <<>> THEN <<>>
  ELSE <<strip(PyStr(Head(l)))>> \o StrippedEntries_KeepBlank(Tail(l))

\* [str(f).strip() for f in fields if str(f).strip()]
RECURSIVE StrippedEntries(_)
StrippedEntries(l) ==
  IF l = <<>> THEN <<>>
  ELSE LET e == strip(PyStr(Head(l)))
       IN  IF e # <<>> THEN <<e>> \o StrippedEntries(Tail(l))
           ELSE StrippedEntries(Tail(l))

\* _normalize_fields: None stays None, a str is returned as it is, an
\* iterable (a dict gives its keys) is stripped, filtered and comma-joined
\* (None when nothing is left), anything that cannot be iterated gives None.
_normalize_fields(fields) ==
  CASE fields.t = "none" -> None
    [] fields.t = "str" -> fields
    [] fields.t \in {"list", "tuple"} ->
         LET joined == Join(StrippedEntries(fields.l))
         IN  IF joined # <<>> THEN StrV(joined) ELSE None
    [] fields.t = "dict" ->
         LET keys == [i \in 1..(Len(fields.l) \div 2) |-> fields.l[2 * i - 1]]
             joined == Join(StrippedEntries(keys))
         IN  IF joined # <<>> THEN StrV(joined) ELSE None
    [] OTHER -> None

\* The decimal numerals the inputs use, with their values
NumeralValue == [x \in {"7"} |-> 7]

\* int(v): [ok, n] or the exception class it raises
PyInt(v) ==
  CASE v.t \in {"int", "bool"} -> [ok |-> TRUE, n |-> v.n, exc |-> "none"]
    [] v.t = "str" ->
         LET d == strip(v.s)
         IN  IF Len(d) = 1 /\ d[1] \in DOMAIN NumeralValue
             THEN [ok |-> TRUE, n |-> NumeralValue[d[1]], exc |-> "none"]
             ELSE [ok |-> FALSE, n |-> 0, exc |-> "ValueError"]
    [] OTHER -> [ok |-> FALSE, n |-> 0, exc |-> "TypeError"]

Max(a, b) == IF a >= b THEN a ELSE b
Min(a, b) == IF a <= b THEN a ELSE b

\* the clamp without its lower end
ClampLimit_NoFloor(n, bound) == Min(n, bound)

\* max(1, min(int(limit), bound))
ClampLimit(n, bound) == Max(1, Min(n, bound))

\* max(0, int(offset))
ClampOffset(n) == Max(0, n)

\* urllib.parse.quote with the default safe="/": tokens of unreserved
\* characters stay, the others are percent-encoded
QuoteToken(c) ==
  CASE c = " " -> "%20"
    [] c = ":" -> "%3A"
    [] OTHER -> c

quote(s) == [i \in 1..Len(s) |-> QuoteToken(s[i])]

\* ------------------------------------------------------------------
\* Dicts, repr and JSON text
\* ------------------------------------------------------------------
\* d.get(k, default) on a dict value
RECURSIVE DictGetL(_, _, _)
DictGetL(l, k, default) ==
  IF Len(l) < 2 THEN default
  ELSE IF l[1] = k THEN l[2]
  ELSE DictGetL(SubSeq(l, 3, Len(l)), k, default)

DictGet(d, k, default) == DictGetL(d.l, k, default)

\* ------------------------------------------------------------------
\* Numerals and floats
\* ------------------------------------------------------------------
\* the decimal digits as characters; Digit[d + 1] is the character of d
Digit == <<"0", "1", "2", "3", "4", "5", "6", "7", "8", "9">>

DigitChars == {Digit[i] : i \in 1..10}

DigitValue(c) == (CHOOSE i \in 1..10 : Digit[i] = c) - 1

Abs(n) == IF n < 0 THEN -n ELSE n

\* the decimal numeral of a natural number, digit by digit
RECURSIVE DigitsOf(_)
DigitsOf(n) ==
  IF n < 10 THEN <<Digit[n + 1]>>
  ELSE DigitsOf(n \div 10) \o <<Digit[(n % 10) + 1]>>

Zeros(k) == [i \in 1..k |-> "0"]

RECURSIVE Pow10(_)
Pow10(k) == IF k <= 0 THEN 1 ELSE 10 * Pow10(k - 1)

\* m * 10^e with the trailing zeros of m moved into the exponent
RECURSIVE Normal(_, _)
Normal(m, e) ==
  IF m = 0 THEN <<0, 0>>
  ELSE IF m % 10 = 0 THEN Normal(m \div 10, e + 1)
  ELSE <<m, e>>

\* a Python float: the double m * 10^e (m signed, without trailing zeros),
\* an infinity, or nan
FloatV(m, e) == Val("float", <<>>, m, <<IntV(e)>>)
Inf(sign) == Val("float", <<"inf">>, sign, <<>>)
NaN == Val("float", <<"nan">>, 0, <<>>)

\* float(literal) for the literal sign * m * 10^e, m of up to nine digits:
\* beyond the largest double, 1.7976931348623157e308, it is an infinity,
\* and below the smallest it is zero
float(sign, m, e) ==
  LET nm == Normal(m, e)
      nd == Len(DigitsOf(nm[1]))
      x == nm[2] + nd - 1
  IN  IF nm[1] = 0 THEN FloatV(0, 0)
      ELSE IF \/ x > 308
              \/ x = 308 /\ nm[1] * Pow10(9 - nd) > 179769313
      THEN Inf(sign)
      ELSE IF x < -324 THEN FloatV(0, 0)
      ELSE FloatV(sign * nm[1], nm[2])

\* float.__repr__: positional between 1e-4 and 1e16, exponent form beyond
float_repr(v) ==
  IF v.s = <<"inf">> THEN (IF v.n < 0 THEN <<"-", "inf">> ELSE <<"inf">>)
  ELSE IF v.s = <<"nan">> THEN <<"nan">>
  ELSE LET m == Abs(v.n)
           e == v.l[1].n
           ds == DigitsOf(m)
           nd == Len(ds)
           x == e + nd - 1
       IN  (IF v.n < 0 THEN <<"-">> ELSE <<>>) \o
           (IF m = 0 THEN <<"0", ".", "0">>
            ELSE IF x < -4 \/ x >= 16
            THEN <<ds[1]>> \o (IF nd > 1 THEN <<".">> \o Tail(ds) ELSE <<>>)
                   \o <<"e", IF x < 0 THEN "-" ELSE "+">>
                   \o (IF Abs(x) < 10 THEN <<"0">> ELSE <<>>) \o DigitsOf(Abs(x))
            ELSE IF e >= 0 THEN ds \o Zeros(e) \o <<".", "0">>
            ELSE IF x >= 0 THEN SubSeq(ds, 1, x + 1) \o <<".">> \o SubSeq(ds, x + 2, nd)
            ELSE <<"0", ".">> \o Zeros(-x - 1) \o ds)

\* repr(v), which is what an f-string shows of a dict and of what it holds
RECURSIVE PyRepr(_)
RECURSIVE ReprItems(_, _)
ReprItems(l, isDict) ==
  IF l = <<>> THEN <<>>
  ELSE IF isDict
  THEN PyRepr(l[1]) \o <<": ">> \o PyRepr(l[2])
         \o (IF Len(l) > 2 THEN <<", ">> ELSE <<>>)
         \o ReprItems(SubSeq(l, 3, Len(l)), TRUE)
  ELSE PyRepr(l[1]) \o (IF Len(l) > 1 THEN <<", ">> ELSE <<>>)
         \o ReprItems(Tail(l), FALSE)

PyRepr(v) ==
  CASE v.t = "str" -> <<"'">> \o v.s \o <<"'">>
    [] v.t = "int" -> <<ToString(v.n)>>
    [] v.t = "bool" -> IF v.n = 1 THEN <<"True">> ELSE <<"False">>
    [] v.t = "none" -> <<"None">>
    [] v.t = "dict" -> <<"{">> \o ReprItems(v.l, TRUE) \o <<"}">>
    [] v.t = "list" -> <<"[">> \o ReprItems(v.l, FALSE) \o <<"]">>
    [] v.t = "float" -> float_repr(v)
    [] OTHER -> <<"<object>">>

\* what json.dumps writes for one character of a string under
\* ensure_ascii=False: the quote, the backslash and the control characters
\* are escaped, everything else is written as it is
EscapeToken(c) ==
  CASE c = "\"" -> "\\\""
    [] c = "\\" -> "\\\\"
    [] c = "\n" -> "\\n"
    [] OTHER -> c

\* json.dumps(v, ensure_ascii=False)
RECURSIVE json_dumps(_)
RECURSIVE DumpItems(_, _)
DumpItems(l, isDict) ==
  IF l = <<>> THEN <<>>
  ELSE IF isDict
  THEN json_dumps(l[1]) \o <<":", " ">> \o json_dumps(l[2])
         \o (IF Len(l) > 2 THEN <<",", " ">> ELSE <<>>)
         \o DumpItems(SubSeq(l, 3, Len(l)), TRUE)
  ELSE json_dumps(l[1]) \o (IF Len(l) > 1 THEN <<",", " ">> ELSE <<>>)
         \o DumpItems(Tail(l), FALSE)

json_dumps(v) ==
  CASE v.t = "str" -> <<"\"">> \o [i \in 1..Len(v.s) |-> EscapeToken(v.s[i])] \o <<"\"">>
    [] v.t = "int" -> (IF v.n < 0 THEN <<"-">> ELSE <<>>) \o DigitsOf(Abs(v.n))
    [] v.t = "float" ->
         IF v.s = <<"inf">> THEN (IF v.n < 0 THEN <<"-", "Infinity">> ELSE <<"Infinity">>)
         ELSE IF v.s = <<"nan">> THEN <<"NaN">>
         ELSE float_repr(v)
    [] v.t = "bool" -> IF v.n = 1 THEN <<"true">> ELSE <<"false">>
    [] v.t = "none" -> <<"null">>
    [] v.t = "dict" -> <<"{">> \o DumpItems(v.l, TRUE) \o <<"}">>
    [] OTHER -> <<"[">> \o DumpItems(v.l, FALSE) \o <<"]">>

\* needle occurs in hay as a contiguous run of tokens
Contains(hay, needle) ==
  \E i \in 0..(Len(hay) - Len(needle)) :
    \A j \in 1..Len(needle) : hay[i + j] = needle[j]

\* ------------------------------------------------------------------
\* Credential resolution
\* ------------------------------------------------------------------
\* The configuration file next to the module: whether it exists, whether
\* reading and parsing it succeeds, and what yaml.safe_load returns.
CfgFile(exists, loads, data) ==
  [exists |-> exists, loads |-> loads, data |-> data]

\* _load_api_key that looks into config.yaml first and falls back to the
\* environment
_load_api_key_FileFirst(env_key, cfgfile) ==
  LET data == IF cfgfile.exists /\ cfgfile.loads /\ Truthy(cfgfile.data)
              THEN cfgfile.data ELSE DictV(<<>>)
      key == IF data.t = "dict"
             THEN DictGet(data, StrV(<<"semantic_scholar">>), DictV(<<>>))
             ELSE DictV(<<>>)
      api_key == IF key.t = "dict"
                 THEN DictGet(key, StrV(<<"api_key">>), None)
                 ELSE None
  IN  IF Truthy(api_key) THEN StrV(strip(PyStr(api_key)))
      ELSE IF Truthy(env_key) THEN StrV(strip(env_key.s))
      ELSE None

\* _load_api_key: a non-empty environment variable, stripped; otherwise
\* semantic_scholar.api_key of config.yaml when it is truthy, as a stripped
\* str; otherwise None.  Every failure while reading the file gives None.
_load_api_key(env_key, cfgfile) ==
  IF Truthy(env_key) THEN StrV(strip(env_key.s))
  ELSE IF ~cfgfile.exists THEN None
  ELSE IF ~cfgfile.loads THEN None
  ELSE LET data == IF Truthy(cfgfile.data) THEN cfgfile.data ELSE DictV(<<>>)
           key == IF data.t = "dict"
                  THEN DictGet(data, StrV(<<"semantic_scholar">>), DictV(<<>>))
                  ELSE DictV(<<>>)
           api_key == IF key.t = "dict"
                      THEN DictGet(key, StrV(<<"api_key">>), None)
                      ELSE None
       IN  IF Truthy(api_key) THEN StrV(strip(PyStr(api_key))) ELSE None

\* ------------------------------------------------------------------
\* Request gateway
\* ------------------------------------------------------------------
_BASE_URL == <<"https:", "/", "/", "api.semanticscholar.org", "/", "graph", "/", "v1">>

\* per-call timeout handed to requests.request
RequestTimeout == 30

RECURSIVE lstripSlash(_)
lstripSlash(s) == IF s # <<>> /\ Head(s) = "/" THEN lstripSlash(Tail(s)) ELSE s

RECURSIVE rstripSlash(_)
rstripSlash(s) ==
  IF s # <<>> /\ s[Len(s)] = "/" THEN rstripSlash(SubSeq(s, 1, Len(s) - 1)) ELSE s

\* url = _BASE_URL.rstrip("/") + "/" + path.lstrip("/")
UrlOf(path) == rstripSlash(_BASE_URL) \o <<"/">> \o lstripSlash(path)

\* The keys a query-parameter mapping or a JSON body can hold
Keys ==
  {"query", "limit", "offset", "fields", "year", "openAccessPdf",
   "fieldsOfStudy", "sort", "ids", "queries", "title", "authors", "venue"}

\* the empty dict (and the None that stands for no params / no body)
NoKeys == [k \in Keys |-> Missing]

Put(d, k, v) == [d EXCEPT ![k] = v]

PutIf(d, cond, k, v) == IF cond THEN Put(d, k, v) ELSE d

\* headers: Accept always, x-api-key when the resolved key is truthy
HeadersOf(api_key) ==
  [h \in {"Accept", "x-api-key"} |->
     IF h = "Accept" THEN StrV(<<"application/json">>)
     ELSE IF Truthy(api_key) THEN api_key ELSE Missing]

\* What a tool hands to _request_json, or the exception it raised before
Raise(exc, param) ==
  [raised |-> TRUE, exc |-> exc, param |-> param, method |-> "none",
   path |-> <<>>, params |-> NoKeys, json |-> NoKeys]

Call(method, path, params, json_body) ==
  [raised |-> FALSE, exc |-> "none", param |-> "none", method |-> method,
   path |-> path, params |-> params, json |-> json_body]

\* the requests.request(...) call of _request_json
RequestOf(c, env_key, cfgfile) ==
  [method |-> c.method, url |-> UrlOf(c.path), params |-> c.params,
   json |-> c.json, headers |-> HeadersOf(_load_api_key(env_key, cfgfile)),
   timeout |-> RequestTimeout]

\* the requests _request_json issues for one call of it
RequestsOf(c, env_key, cfgfile) == <<RequestOf(c, env_key, cfgfile)>>

\* a gateway that sends the request again after a 429
RequestsAfter_Retry429(rq, status) == IF status = 429 THEN <<rq>> ELSE <<>>

\* the requests _request_json issues once the response is in
RequestsAfter(rq, status) == <<>>

\* ------------------------------------------------------------------
\* Responses and outcomes
\* ------------------------------------------------------------------
\* A body is a sequence of tokens: the structural characters, the quote,
\* single digits, the sign, the point and the exponent mark of a number,
\* the literals, whitespace, and inside a string an escape sequence or a
\* run of ordinary characters.
JsonWS == {" ", "\n"}

RECURSIVE SkipWS(_)
SkipWS(ts) == IF ts # <<>> /\ Head(ts) \in JsonWS THEN SkipWS(Tail(ts)) ELSE ts

ParseFail == [ok |-> FALSE, v |-> None, rest |-> <<>>]

Parsed(v, rest) == [ok |-> TRUE, v |-> v, rest |-> rest]

\* the character an escape sequence of a JSON string stands for
Unescape(c) ==
  CASE c = "\\\"" -> "\""
    [] c = "\\\\" -> "\\"
    [] c = "\\/" -> "/"
    [] c = "\\n" -> "\n"
    [] c = "\\u00e9" -> "U+00E9"
    [] OTHER -> c

\* the rest of a string after its opening quote: up to the closing quote;
\* a bare backslash or control character is not allowed
RECURSIVE ParseString(_, _)
ParseString(ts, acc) ==
  IF ts = <<>> THEN ParseFail
  ELSE IF Head(ts) = "\"" THEN Parsed(StrV(acc), Tail(ts))
  ELSE IF Head(ts) \in {"\\", "\n"} THEN ParseFail
  ELSE ParseString(Tail(ts), Append(acc, Unescape(Head(ts))))

\* the digits ts begins with: their value, how many, and what follows
RECURSIVE ReadDigits(_, _, _)
ReadDigits(ts, n, len) ==
  IF ts # <<>> /\ Head(ts) \in DigitChars
  THEN ReadDigits(Tail(ts), n * 10 + DigitValue(Head(ts)), len + 1)
  ELSE [n |-> n, len |-> len, rest |-> ts]

\* the number a JSON text denotes: sign * m * 10^e exactly
Number(sign, m, e) ==
  LET nm == Normal(m, e) IN Val("number", <<>>, sign * nm[1], <<IntV(nm[2])>>)

\* -? int frac? exp?  Python makes an int of a literal without fraction and
\* exponent and a float of any other; the exact reading keeps the number.
ParseNumber(ts, python) ==
  LET neg == ts # <<>> /\ Head(ts) = "-"
      t1 == IF neg THEN Tail(ts) ELSE ts
      int == ReadDigits(t1, 0, 0)
      hasFrac == int.rest # <<>> /\ Head(int.rest) = "."
      frac == IF hasFrac THEN ReadDigits(Tail(int.rest), 0, 0)
              ELSE [n |-> 0, len |-> 0, rest |-> int.rest]
      hasExp == frac.rest # <<>> /\ Head(frac.rest) \in {"e", "E"}
      t2 == IF hasExp THEN Tail(frac.rest) ELSE frac.rest
      signed == hasExp /\ t2 # <<>> /\ Head(t2) \in {"+", "-"}
      exp == IF hasExp THEN ReadDigits(IF signed THEN Tail(t2) ELSE t2, 0, 0)
             ELSE [n |-> 0, len |-> 0, rest |-> t2]
      sign == IF neg THEN -1 ELSE 1
      m == int.n * Pow10(frac.len) + frac.n
      e == (IF signed /\ Head(t2) = "-" THEN -exp.n ELSE exp.n) - frac.len
  IN  IF \/ int.len = 0
         \/ int.len > 1 /\ Head(t1) = "0"
         \/ hasFrac /\ frac.len = 0
         \/ hasExp /\ exp.len = 0
      THEN ParseFail
      ELSE Parsed(IF ~python THEN Number(sign, m, e)
                  ELSE IF ~hasFrac /\ ~hasExp THEN IntV(sign * int.n)
                  ELSE float(sign, m, e),
                  exp.rest)

\* d[key] = v on a dict: the value of a key already there is replaced
SetItem(l, key, v) ==
  IF \E i \in 1..Len(l) : i % 2 = 1 /\ l[i] = key
  THEN [i \in 1..Len(l) |-> IF i % 2 = 0 /\ l[i - 1] = key THEN v ELSE l[i]]
  ELSE l \o <<key, v>>

\* One JSON value at the head of ts.  python = TRUE is json.loads as
\* resp.json() calls it: NaN, Infinity and -Infinity are accepted and
\* numbers become int or float.  python = FALSE reads the text as RFC 8259
\* defines it, numbers exact.
RECURSIVE ParseValue(_, _)
RECURSIVE ParseElements(_, _, _)
RECURSIVE ParseMembers(_, _, _)
ParseValue(ts0, python) ==
  LET ts == SkipWS(ts0)
  IN  IF ts = <<>> THEN ParseFail
      ELSE CASE Head(ts) = "\"" -> ParseString(Tail(ts), <<>>)
             [] Head(ts) = "{" ->
                  LET t == SkipWS(Tail(ts))
                  IN  IF t # <<>> /\ Head(t) = "}" THEN Parsed(DictV(<<>>), Tail(t))
                      ELSE ParseMembers(t, <<>>, python)
             [] Head(ts) = "[" ->
                  LET t == SkipWS(Tail(ts))
                  IN  IF t # <<>> /\ Head(t) = "]" THEN Parsed(ListV(<<>>), Tail(t))
                      ELSE ParseElements(t, <<>>, python)
             [] Head(ts) = "true" -> Parsed(BoolV(TRUE), Tail(ts))
             [] Head(ts) = "false" -> Parsed(BoolV(FALSE), Tail(ts))
             [] Head(ts) = "null" -> Parsed(None, Tail(ts))
             [] python /\ Head(ts) = "NaN" -> Parsed(NaN, Tail(ts))
             [] python /\ Head(ts) = "Infinity" -> Parsed(Inf(1), Tail(ts))
             [] python /\ Head(ts) = "-" /\ Len(ts) > 1 /\ ts[2] = "Infinity" ->
                  Parsed(Inf(-1), SubSeq(ts, 3, Len(ts)))
             [] OTHER -> ParseNumber(ts, python)

ParseElements(ts, acc, python) ==
  LET item == ParseValue(ts, python)
      t == SkipWS(item.rest)
  IN  IF ~item.ok \/ t = <<>> THEN ParseFail
      ELSE IF Head(t) = "," THEN ParseElements(Tail(t), Append(acc, item.v), python)
      ELSE IF Head(t) = "]" THEN Parsed(ListV(Append(acc, item.v)), Tail(t))
      ELSE ParseFail

ParseMembers(ts0, acc, python) ==
  LET ts == SkipWS(ts0)
      key == IF ts # <<>> /\ Head(ts) = "\"" THEN ParseString(Tail(ts), <<>>)
             ELSE ParseFail
      t1 == SkipWS(key.rest)
      item == IF key.ok /\ t1 # <<>> /\ Head(t1) = ":" THEN ParseValue(Tail(t1), python)
              ELSE ParseFail
      t2 == SkipWS(item.rest)
  IN  IF ~item.ok \/ t2 = <<>> THEN ParseFail
      ELSE IF Head(t2) = "," THEN ParseMembers(Tail(t2), SetItem(acc, key.v, item.v), python)
      ELSE IF Head(t2) = "}" THEN Parsed(DictV(SetItem(acc, key.v, item.v)), Tail(t2))
      ELSE ParseFail

\* a whole text as one JSON value, nothing but whitespace around it
Decode(text, python) ==
  LET r == ParseValue(text, python)
  IN  IF r.ok /\ SkipWS(r.rest) = <<>> THEN [ok |-> TRUE, v |-> r.v]
      ELSE [ok |-> FALSE, v |-> None]

\* The response bodies of the wide input universe that are JSON documents,
\* with the value resp.json() gives for each.
JsonBodies ==
  { [text |-> <<"{", "\"", "message", "\"", ":", "\"", "rate", " ", "limited", "\"", "}">>,
     value |-> DictV(<<StrV(<<"message">>), StrV(<<"rate", " ", "limited">>)>>)],
    [text |-> <<"{", "\"", "paperId", "\"", ":", " ", "\"", "p1", "\"", ",",
                "\"", "year", "\"", ":", "2", "0", "2", "0", "}">>,
     value |-> DictV(<<StrV(<<"paperId">>), StrV(<<"p1">>),
                       StrV(<<"year">>), IntV(2020)>>)] }

\* a gateway whose fallback is the bare response text
resp_json_TextOnFailure(text) ==
  LET d == Decode(text, TRUE)
  IN  IF d.ok THEN d ELSE [ok |-> TRUE, v |-> StrV(text)]

\* resp.json(): the parsed value, or a failure to parse
resp_json(text) == Decode(text, TRUE)

NoOutcome ==
  [kind |-> "none", param |-> "none", msg |-> <<>>, data |-> Missing, text |-> <<>>]

\* an exception leaving the tool function
Exc(kind, param, msg) ==
  [kind |-> kind, param |-> param, msg |-> msg, data |-> Missing, text |-> <<>>]

\* return json.dumps(data, ensure_ascii=False)
Ret(data) ==
  [kind |-> "return", param |-> "none", msg |-> <<>>, data |-> data,
   text |-> json_dumps(data)]

\* success read as "below 400": redirects pass
IsSuccess_Below400(status) == 200 <= status /\ status < 400

\* a status code that counts as success
IsSuccess(status) == 200 <= status /\ status < 300

\* a gateway that hands the status to resp.raise_for_status(): the HTTP
\* client's own HTTPError leaves instead of the RuntimeError
ResultOf_RaiseForStatus(rq, status, text) ==
  LET parsed == resp_json(text)
  IN  IF ~IsSuccess(status) THEN Exc("HTTPError", "none", <<ToString(status)>>)
      ELSE IF parsed.ok THEN Ret(parsed.v)
      ELSE Ret(DictV(<<StrV(<<"raw">>), StrV(text)>>))

\* _request_json after requests.request returned: a non-2xx status raises
\* RuntimeError with status, url and payload in the message; a 2xx status
\* returns the parsed body, or {"raw": text} when the body is not JSON.
ResultOf(rq, status, text) ==
  LET parsed == resp_json(text)
  IN  IF ~IsSuccess(status)
      THEN LET payload == IF parsed.ok THEN parsed.v
                          ELSE DictV(<<StrV(<<"message">>), StrV(text)>>)
           IN  Exc("RuntimeError", "none",
                   <<"Semantic Scholar API error ", ToString(status), " for ">>
                     \o rq.url \o <<": ">> \o PyRepr(payload))
      ELSE IF parsed.ok THEN Ret(parsed.v)
      ELSE Ret(DictV(<<StrV(<<"raw">>), StrV(text)>>))

\* requests.request raising on the 30 s timeout: nothing catches it
TimeoutOf(rq) == Exc("Timeout", "none", <<>>)

\* ------------------------------------------------------------------
\* Argument checks shared by the tools
\* ------------------------------------------------------------------
MaxBatchIds == 1000
MaxBulkQueries == 100
PageBound == 100
MatchBound == 20

\* not isinstance(x, str) or not x.strip()
BadStr(x) == ~IsStr(x) \/ strip(x.s) = <<>>

\* BadList with the bound compared by >= : a list of exactly `bound` items
\* is turned away
BadList_OffByOne(xs, bound) ==
  \/ ~IsListOrTuple(xs)
  \/ Len(xs.l) = 0
  \/ Len(xs.l) >= bound
  \/ \E i \in 1..Len(xs.l) : BadStr(xs.l[i])

\* the checks of a list argument, in the order of the code
BadList(xs, bound) ==
  \/ ~IsListOrTuple(xs)
  \/ Len(xs.l) = 0
  \/ Len(xs.l) > bound
  \/ \E i \in 1..Len(xs.l) : BadStr(xs.l[i])

\* clean.append(x.strip()) for every item
CleanList(xs) == ListV([i \in 1..Len(xs.l) |-> StrV(strip(xs.l[i].s))])

\* params/body with the normalized selector under key k when it is truthy
WithFields(d, k, fields) ==
  LET norm == _normalize_fields(fields)
  IN  PutIf(d, Truthy(norm), k, norm)

\* {"limit": max(1, min(int(limit), bound)), "offset": max(0, int(offset))}
\* added to d; the exception of int() when it raises
Paged(d, limit, offset, bound) ==
  LET l == PyInt(limit)
      o == PyInt(offset)
  IN  IF ~l.ok THEN [ok |-> FALSE, exc |-> l.exc, param |-> "limit", d |-> d]
      ELSE IF ~o.ok THEN [ok |-> FALSE, exc |-> o.exc, param |-> "offset", d |-> d]
      ELSE [ok |-> TRUE, exc |-> "none", param |-> "none",
            d |-> Put(Put(d, "limit", IntV(ClampLimit(l.n, bound))),
                      "offset", IntV(ClampOffset(o.n)))]

\* {"limit": max(1, min(int(limit), bound))} added to d
Limited(d, limit, bound) ==
  LET l == PyInt(limit)
  IN  IF ~l.ok THEN [ok |-> FALSE, exc |-> l.exc, param |-> "limit", d |-> d]
      ELSE [ok |-> TRUE, exc |-> "none", param |-> "none",
            d |-> Put(d, "limit", IntV(ClampLimit(l.n, bound)))]

\* ------------------------------------------------------------------
\* The tools: the exception raised before the request, or the request
\* ------------------------------------------------------------------
get_paper_call(paper_id, fields) ==
  IF BadStr(paper_id) THEN Raise("ValueError", "paper_id")
  ELSE Call("GET", <<"/", "paper", "/">> \o quote(strip(paper_id.s)),
            WithFields(NoKeys, "fields", fields), NoKeys)

\* get_papers_batch that leaves the field selector out of the body
get_papers_batch_call_NoFields(paper_ids, fields) ==
  IF BadList(paper_ids, MaxBatchIds) THEN Raise("ValueError", "paper_ids")
  ELSE Call("POST", <<"/", "paper", "/", "batch">>, NoKeys,
            Put(NoKeys, "ids", CleanList(paper_ids)))

get_papers_batch_call(paper_ids, fields) ==
  IF BadList(paper_ids, MaxBatchIds) THEN Raise("ValueError", "paper_ids")
  ELSE Call("POST", <<"/", "paper", "/", "batch">>, NoKeys,
            WithFields(Put(NoKeys, "ids", CleanList(paper_ids)), "fields", fields))

search_papers_call(query, fields, limit, offset, year, open_access_pdf, fields_of_study) ==
  LET pg == Paged(Put(NoKeys, "query", query), limit, offset, PageBound)
      p1 == WithFields(pg.d, "fields", fields)
      p2 == PutIf(p1, Truthy(year), "year", StrV(PyStr(year)))
      p3 == PutIf(p2, open_access_pdf.t # "none", "openAccessPdf",
                  IF Truthy(open_access_pdf) THEN StrV(<<"true">>)
                  ELSE StrV(<<"false">>))
      p4 == WithFields(p3, "fieldsOfStudy", fields_of_study)
  IN  IF ~pg.ok THEN Raise(pg.exc, pg.param)
      ELSE Call("GET", <<"/", "paper", "/", "search">>, p4, NoKeys)

search_papers_bulk_call(queries, fields, limit, offset) ==
  IF BadList(queries, MaxBulkQueries) THEN Raise("ValueError", "queries")
  ELSE LET pg == Paged(Put(NoKeys, "queries", CleanList(queries)),
                       limit, offset, PageBound)
       IN  IF ~pg.ok THEN Raise(pg.exc, pg.param)
           ELSE Call("POST", <<"/", "paper", "/", "search", "/", "bulk">>, NoKeys,
                     WithFields(pg.d, "fields", fields))

search_papers_match_call(title, authors, year, venue, fields, limit) ==
  IF BadStr(title) THEN Raise("ValueError", "title")
  ELSE IF year.t # "none" /\ (~IsInt(year) \/ year.n < 0)
  THEN Raise("ValueError", "year")
  ELSE LET lm == Limited(Put(NoKeys, "title", StrV(strip(title.s))),
                         limit, MatchBound)
           b1 == WithFields(lm.d, "authors", authors)
           b2 == PutIf(b1, year.t # "none", "year", IntV(year.n))
           b3 == PutIf(b2, Truthy(venue), "venue", StrV(PyStr(venue)))
           b4 == WithFields(b3, "fields", fields)
       IN  IF ~lm.ok THEN Raise(lm.exc, lm.param)
           ELSE Call("POST", <<"/", "paper", "/", "search", "/", "match">>,
                     NoKeys, b4)

paper_autocomplete_call(query, limit) ==
  IF BadStr(query) THEN Raise("ValueError", "query")
  ELSE LET lm == Limited(Put(NoKeys, "query", StrV(strip(query.s))),
                         limit, PageBound)
       IN  IF ~lm.ok THEN Raise(lm.exc, lm.param)
           ELSE Call("GET", <<"/", "paper", "/", "autocomplete">>, lm.d, NoKeys)

\* get_paper_authors, get_paper_citations and get_paper_references differ
\* in the last path segment only
PaperEdgeCall(edge, paper_id, fields, limit, offset) ==
  IF BadStr(paper_id) THEN Raise("ValueError", "paper_id")
  ELSE LET pg == Paged(NoKeys, limit, offset, PageBound)
       IN  IF ~pg.ok THEN Raise(pg.exc, pg.param)
           ELSE Call("GET",
                     <<"/", "paper", "/">> \o quote(strip(paper_id.s))
                       \o <<"/", edge>>,
                     WithFields(pg.d, "fields", fields), NoKeys)

get_paper_authors_call(paper_id, fields, limit, offset) ==
  PaperEdgeCall("authors", paper_id, fields, limit, offset)

get_paper_citations_call(paper_id, fields, limit, offset) ==
  PaperEdgeCall("citations", paper_id, fields, limit, offset)

get_paper_references_call(paper_id, fields, limit, offset) ==
  PaperEdgeCall("references", paper_id, fields, limit, offset)

get_author_call(author_id, fields) ==
  IF BadStr(author_id) THEN Raise("ValueError", "author_id")
  ELSE Call("GET", <<"/", "author", "/">> \o quote(strip(author_id.s)),
            WithFields(NoKeys, "fields", fields), NoKeys)

get_authors_batch_call(author_ids, fields) ==
  IF BadList(author_ids, MaxBatchIds) THEN Raise("ValueError", "author_ids")
  ELSE Call("POST", <<"/", "author", "/", "batch">>, NoKeys,
            WithFields(Put(NoKeys, "ids", CleanList(author_ids)), "fields", fields))

search_authors_call(query, fields, limit, offset) ==
  IF BadStr(query) THEN Raise("ValueError", "query")
  ELSE LET pg == Paged(Put(NoKeys, "query", StrV(strip(query.s))),
                       limit, offset, PageBound)
       IN  IF ~pg.ok THEN Raise(pg.exc, pg.param)
           ELSE Call("GET", <<"/", "author", "/", "search">>,
                     WithFields(pg.d, "fields", fields), NoKeys)

get_author_papers_call(author_id, fields, limit, offset, sort) ==
  IF BadStr(author_id) THEN Raise("ValueError", "author_id")
  ELSE LET pg == Paged(NoKeys, limit, offset, PageBound)
           p1 == PutIf(pg.d, Truthy(sort), "sort", StrV(PyStr(sort)))
       IN  IF ~pg.ok THEN Raise(pg.exc, pg.param)
           ELSE Call("GET",
                     <<"/", "author", "/">> \o quote(strip(author_id.s))
                       \o <<"/", "papers">>,
                     WithFields(p1, "fields", fields), NoKeys)

snippet_search_call(query, fields, limit, offset, fields_of_study) ==
  IF BadStr(query) THEN Raise("ValueError", "query")
  ELSE LET pg == Paged(Put(NoKeys, "query", StrV(strip(query.s))),
                       limit, offset, PageBound)
           p1 == WithFields(pg.d, "fields", fields)
       IN  IF ~pg.ok THEN Raise(pg.exc, pg.param)
           ELSE Call("GET", <<"/", "snippet", "/", "search">>,
                     WithFields(p1, "fieldsOfStudy", fields_of_study), NoKeys)

\* ------------------------------------------------------------------
\* Signatures: parameter names and defaults
\* ------------------------------------------------------------------
AllParams ==
  {"paper_id", "paper_ids", "query", "queries", "title", "author_id",
   "author_ids", "fields", "limit", "offset", "year", "open_access_pdf",
   "fields_of_study", "authors", "venue", "sort"}


\* the default of `fields` in each signature
DefaultFields(tool) ==
  CASE tool = "get_paper" ->
         StrV(<<"title,authors,abstract,year,venue,externalIds,url,referenceCount,citationCount,fieldsOfStudy,openAccessPdf">>)
    [] tool = "get_papers_batch" -> StrV(<<"title,authors,year,venue,externalIds,url">>)
    [] tool = "search_papers" -> StrV(<<"title,authors,year,venue,externalIds,url">>)
    [] tool = "search_papers_bulk" -> StrV(<<"title,authors,year,venue,url">>)
    [] tool = "search_papers_match" -> StrV(<<"title,authors,year,venue,url,externalIds">>)
    [] tool = "get_paper_authors" ->
         StrV(<<"authors.name,authors.authorId,authors.hIndex,authors.url">>)
    [] tool = "get_paper_citations" ->
         StrV(<<"citingPaper.title,citingPaper.authors,citingPaper.year,citingPaper.url">>)
    [] tool = "get_paper_references" ->
         StrV(<<"citedPaper.title,citedPaper.authors,citedPaper.year,citedPaper.url">>)
    [] tool = "get_author" ->
         StrV(<<"name,authorId,affiliations,hIndex,homepage,url,paperCount,citationCount">>)
    [] tool = "get_authors_batch" -> StrV(<<"name,authorId,hIndex,url">>)
    [] tool = "search_authors" -> StrV(<<"name,authorId,hIndex,affiliations,url">>)
    [] tool = "get_author_papers" ->
         StrV(<<"papers.title,papers.year,papers.venue,papers.url">>)
    [] OTHER -> StrV(<<"paperId,title,authors,year,url,abstract">>)

\* the default of `limit` in each signature
DefaultLimit(tool) ==
  CASE tool = "search_papers_match" -> IntV(5)
    [] tool = "paper_autocomplete" -> IntV(10)
    [] tool \in {"get_paper_authors", "get_paper_citations",
                 "get_paper_references", "get_author_papers"} -> IntV(100)
    [] OTHER -> IntV(25)

\* the default of `offset` in every signature that has it
DefaultOffset == IntV(0)

\* the arguments of a call, by parameter name
ArgsOf(pairs) ==
  [p \in AllParams |->
     IF \E i \in 1..Len(pairs) : pairs[i][1] = p
     THEN pairs[CHOOSE i \in 1..Len(pairs) : pairs[i][1] = p][2]
     ELSE Missing]

NoArgs == [p \in AllParams |-> Missing]

\* 1 when an optional argument was passed (differs from its default)
Given(v, default) == IF v # default THEN 1 ELSE 0

\* the values an optional argument can take when `used` optional arguments
\* were passed before it
Opt(S, default, used) == IF used >= MaxOptional THEN {default} ELSE S \cup {default}

\* ------------------------------------------------------------------
\* State
\* ------------------------------------------------------------------
VARIABLES
  env,      \* os.environ["SEMANTIC_SCHOLAR_API_KEY"], None when unset
  cfg,      \* config.yaml next to the module
  pc,       \* "idle", "waiting" (inside requests.request) or "done"
  op,       \* the tool being run
  args,     \* its arguments
  sent,     \* the requests.request calls of this invocation, in order
  resp,     \* the response received
  outcome,  \* what the tool returned or raised
  other     \* the frame of the invocation the transport runs concurrently

vars == <<env, cfg, pc, op, args, sent, resp, outcome, other>>

NoResp == [status |-> 0, text |-> <<>>]

\* the frame of the invocation that pc, op, args, sent, resp, outcome describe
Frame ==
  [pc |-> pc, op |-> op, args |-> args, sent |-> sent, resp |-> resp,
   outcome |-> outcome]

\* the frame of a worker that runs no tool
IdleFrame ==
  [pc |-> "idle", op |-> "none", args |-> NoArgs, sent |-> <<>>,
   resp |-> NoResp, outcome |-> NoOutcome]

\* the process before any tool call, in some environment
InitIn(U) ==
  /\ env \in U.env
  /\ cfg \in U.cfg
  /\ pc = "idle"
  /\ op = "none"
  /\ args = NoArgs
  /\ sent = <<>>
  /\ resp = NoResp
  /\ outcome = NoOutcome
  /\ other = IdleFrame

\* a server that resolves the credential once and keeps it for the
\* invocations that come while a request is out
Invoke_CachedKey(tool, a, c) ==
  /\ op' = tool
  /\ args' = a
  /\ resp' = NoResp
  /\ IF c.raised
     THEN /\ pc' = "done"
          /\ sent' = <<>>
          /\ outcome' = Exc(c.exc, c.param, <<>>)
     ELSE /\ pc' = "waiting"
          /\ sent' = IF other.sent # <<>>
                     THEN <<[RequestOf(c, env, cfg)
                               EXCEPT !.headers = other.sent[1].headers]>>
                     ELSE RequestsOf(c, env, cfg)
          /\ outcome' = NoOutcome
  /\ UNCHANGED <<env, cfg, other>>

\* A tool function runs up to its return, its raise, or the point where
\* requests.request blocks on the network.
Invoke(tool, a, c) ==
  /\ op' = tool
  /\ args' = a
  /\ resp' = NoResp
  /\ IF c.raised
     THEN /\ pc' = "done"
          /\ sent' = <<>>
          /\ outcome' = Exc(c.exc, c.param, <<>>)
     ELSE /\ pc' = "waiting"
          /\ sent' = RequestsOf(c, env, cfg)
          /\ outcome' = NoOutcome
  /\ UNCHANGED <<env, cfg, other>>

get_paper(U) ==
  /\ pc = "idle"
  /\ \E paper_id \in U.text :
     \E fields \in Opt(U.fields, DefaultFields("get_paper"), 0) :
       Invoke("get_paper",
              ArgsOf(<< <<"paper_id", paper_id>>, <<"fields", fields>> >>),
              get_paper_call(paper_id, fields))

get_papers_batch(U) ==
  /\ pc = "idle"
  /\ \E paper_ids \in U.ids :
     \E fields \in Opt(U.fields, DefaultFields("get_papers_batch"), 0) :
       Invoke("get_papers_batch",
              ArgsOf(<< <<"paper_ids", paper_ids>>, <<"fields", fields>>
              >>),
              get_papers_batch_call(paper_ids, fields))

search_papers(U) ==
  /\ pc = "idle"
  /\ \E query \in U.text :
     \E fields \in Opt(U.fields, DefaultFields("search_papers"), 0) :
     \E limit \in Opt(U.limit, DefaultLimit("search_papers"), Given(fields, DefaultFields("search_papers"))) :
     \E offset \in Opt(U.offset, DefaultOffset,
              Given(fields, DefaultFields("search_papers"))
            + Given(limit, DefaultLimit("search_papers"))) :
     \E year \in Opt(U.year_str, None,
              Given(fields, DefaultFields("search_papers"))
            + Given(limit, DefaultLimit("search_papers"))
            + Given(offset, DefaultOffset)) :
     \E open_access_pdf \in Opt(U.flag, None,
              Given(fields, DefaultFields("search_papers"))
            + Given(limit, DefaultLimit("search_papers"))
            + Given(offset, DefaultOffset)
            + Given(year, None)) :
     \E fields_of_study \in Opt(U.selector, None,
              Given(fields, DefaultFields("search_papers"))
            + Given(limit, DefaultLimit("search_papers"))
            + Given(offset, DefaultOffset)
            + Given(year, None)
            + Given(open_access_pdf, None)) :
       Invoke("search_papers",
              ArgsOf(<< <<"query", query>>, <<"fields", fields>>, <<"limit",
              limit>>, <<"offset", offset>>, <<"year", year>>,
              <<"open_access_pdf", open_access_pdf>>, <<"fields_of_study",
              fields_of_study>> >>),
              search_papers_call(query, fields, limit, offset, year,
              open_access_pdf, fields_of_study))

search_papers_bulk(U) ==
  /\ pc = "idle"
  /\ \E queries \in U.queries :
     \E fields \in Opt(U.fields, DefaultFields("search_papers_bulk"), 0) :
     \E limit \in Opt(U.limit, DefaultLimit("search_papers_bulk"), Given(fields, DefaultFields("search_papers_bulk"))) :
     \E offset \in Opt(U.offset, DefaultOffset,
              Given(fields, DefaultFields("search_papers_bulk"))
            + Given(limit, DefaultLimit("search_papers_bulk"))) :
       Invoke("search_papers_bulk",
              ArgsOf(<< <<"queries", queries>>, <<"fields", fields>>,
              <<"limit", limit>>, <<"offset", offset>> >>),
              search_papers_bulk_call(queries, fields, limit, offset))

search_papers_match(U) ==
  /\ pc = "idle"
  /\ \E title \in U.text :
     \E authors \in Opt(U.selector, None, 0) :
     \E year \in Opt(U.year_int, None, Given(authors, None)) :
     \E venue \in Opt(U.word, None, Given(authors, None) + Given(year, None)) :
     \E fields \in Opt(U.fields, DefaultFields("search_papers_match"),
              Given(authors, None)
            + Given(year, None)
            + Given(venue, None)) :
     \E limit \in Opt(U.limit, DefaultLimit("search_papers_match"),
              Given(authors, None)
            + Given(year, None)
            + Given(venue, None)
            + Given(fields, DefaultFields("search_papers_match"))) :
       Invoke("search_papers_match",
              ArgsOf(<< <<"title", title>>, <<"authors", authors>>,
              <<"year", year>>, <<"venue", venue>>, <<"fields", fields>>,
              <<"limit", limit>> >>),
              search_papers_match_call(title, authors, year, venue, fields,
              limit))

paper_autocomplete(U) ==
  /\ pc = "idle"
  /\ \E query \in U.text :
     \E limit \in Opt(U.limit, DefaultLimit("paper_autocomplete"), 0) :
       Invoke("paper_autocomplete",
              ArgsOf(<< <<"query", query>>, <<"limit", limit>> >>),
              paper_autocomplete_call(query, limit))

get_paper_authors(U) ==
  /\ pc = "idle"
  /\ \E paper_id \in U.text :
     \E fields \in Opt(U.fields, DefaultFields("get_paper_authors"), 0) :
     \E limit \in Opt(U.limit, DefaultLimit("get_paper_authors"), Given(fields, DefaultFields("get_paper_authors"))) :
     \E offset \in Opt(U.offset, DefaultOffset,
              Given(fields, DefaultFields("get_paper_authors"))
            + Given(limit, DefaultLimit("get_paper_authors"))) :
       Invoke("get_paper_authors",
              ArgsOf(<< <<"paper_id", paper_id>>, <<"fields", fields>>,
              <<"limit", limit>>, <<"offset", offset>> >>),
              get_paper_authors_call(paper_id, fields, limit, offset))

get_paper_citations(U) ==
  /\ pc = "idle"
  /\ \E paper_id \in U.text :
     \E fields \in Opt(U.fields, DefaultFields("get_paper_citations"), 0) :
     \E limit \in Opt(U.limit, DefaultLimit("get_paper_citations"), Given(fields, DefaultFields("get_paper_citations"))) :
     \E offset \in Opt(U.offset, DefaultOffset,
              Given(fields, DefaultFields("get_paper_citations"))
            + Given(limit, DefaultLimit("get_paper_citations"))) :
       Invoke("get_paper_citations",
              ArgsOf(<< <<"paper_id", paper_id>>, <<"fields", fields>>,
              <<"limit", limit>>, <<"offset", offset>> >>),
              get_paper_citations_call(paper_id, fields, limit, offset))

get_paper_references(U) ==
  /\ pc = "idle"
  /\ \E paper_id \in U.text :
     \E fields \in Opt(U.fields, DefaultFields("get_paper_references"), 0) :
     \E limit \in Opt(U.limit, DefaultLimit("get_paper_references"), Given(fields, DefaultFields("get_paper_references"))) :
     \E offset \in Opt(U.offset, DefaultOffset,
              Given(fields, DefaultFields("get_paper_references"))
            + Given(limit, DefaultLimit("get_paper_references"))) :
       Invoke("get_paper_references",
              ArgsOf(<< <<"paper_id", paper_id>>, <<"fields", fields>>,
              <<"limit", limit>>, <<"offset", offset>> >>),
              get_paper_references_call(paper_id, fields, limit, offset))

get_author(U) ==
  /\ pc = "idle"
  /\ \E author_id \in U.text :
     \E fields \in Opt(U.fields, DefaultFields("get_author"), 0) :
       Invoke("get_author",
              ArgsOf(<< <<"author_id", author_id>>, <<"fields", fields>>
              >>),
              get_author_call(author_id, fields))

get_authors_batch(U) ==
  /\ pc = "idle"
  /\ \E author_ids \in U.ids :
     \E fields \in Opt(U.fields, DefaultFields("get_authors_batch"), 0) :
       Invoke("get_authors_batch",
              ArgsOf(<< <<"author_ids", author_ids>>, <<"fields", fields>>
              >>),
              get_authors_batch_call(author_ids, fields))

search_authors(U) ==
  /\ pc = "idle"
  /\ \E query \in U.text :
     \E fields \in Opt(U.fields, DefaultFields("search_authors"), 0) :
     \E limit \in Opt(U.limit, DefaultLimit("search_authors"), Given(fields, DefaultFields("search_authors"))) :
     \E offset \in Opt(U.offset, DefaultOffset,
              Given(fields, DefaultFields("search_authors"))
            + Given(limit, DefaultLimit("search_authors"))) :
       Invoke("search_authors",
              ArgsOf(<< <<"query", query>>, <<"fields", fields>>, <<"limit",
              limit>>, <<"offset", offset>> >>),
              search_authors_call(query, fields, limit, offset))

get_author_papers(U) ==
  /\ pc = "idle"
  /\ \E author_id \in U.text :
     \E fields \in Opt(U.fields, DefaultFields("get_author_papers"), 0) :
     \E limit \in Opt(U.limit, DefaultLimit("get_author_papers"), Given(fields, DefaultFields("get_author_papers"))) :
     \E offset \in Opt(U.offset, DefaultOffset,
              Given(fields, DefaultFields("get_author_papers"))
            + Given(limit, DefaultLimit("get_author_papers"))) :
     \E sort \in Opt(U.word, None,
              Given(fields, DefaultFields("get_author_papers"))
            + Given(limit, DefaultLimit("get_author_papers"))
            + Given(offset, DefaultOffset)) :
       Invoke("get_author_papers",
              ArgsOf(<< <<"author_id", author_id>>, <<"fields", fields>>,
              <<"limit", limit>>, <<"offset", offset>>, <<"sort", sort>>
              >>),
              get_author_papers_call(author_id, fields, limit, offset,
              sort))

snippet_search(U) ==
  /\ pc = "idle"
  /\ \E query \in U.text :
     \E fields \in Opt(U.fields, DefaultFields("snippet_search"), 0) :
     \E limit \in Opt(U.limit, DefaultLimit("snippet_search"), Given(fields, DefaultFields("snippet_search"))) :
     \E offset \in Opt(U.offset, DefaultOffset,
              Given(fields, DefaultFields("snippet_search"))
            + Given(limit, DefaultLimit("snippet_search"))) :
     \E fields_of_study \in Opt(U.selector, None,
              Given(fields, DefaultFields("snippet_search"))
            + Given(limit, DefaultLimit("snippet_search"))
            + Given(offset, DefaultOffset)) :
       Invoke("snippet_search",
              ArgsOf(<< <<"query", query>>, <<"fields", fields>>, <<"limit",
              limit>>, <<"offset", offset>>, <<"fields_of_study",
              fields_of_study>> >>),
              snippet_search_call(query, fields, limit, offset,
              fields_of_study))

\* requests.request returns a response; _request_json turns it into the
\* result and the tool returns or lets the exception through.
Response(U) ==
  /\ pc = "waiting"
  /\ \E status \in U.status, text \in U.body :
       /\ resp' = [status |-> status, text |-> text]
       /\ outcome' = ResultOf(sent[Len(sent)], status, text)
       /\ sent' = sent \o RequestsAfter(sent[Len(sent)], status)
  /\ pc' = "done"
  /\ UNCHANGED <<env, cfg, op, args, other>>

\* requests.request gives up after the timeout and raises
Timeout ==
  /\ pc = "waiting"
  /\ outcome' = TimeoutOf(sent[Len(sent)])
  /\ pc' = "done"
  /\ UNCHANGED <<env, cfg, op, args, sent, resp, other>>

\* the transport hands the outcome to the caller; the call's frame is gone
Finish ==
  /\ pc = "done"
  /\ pc' = "idle"
  /\ op' = "none"
  /\ args' = NoArgs
  /\ sent' = <<>>
  /\ resp' = NoResp
  /\ outcome' = NoOutcome
  /\ UNCHANGED <<env, cfg, other>>

\* the environment variable is set, changed or unset between calls
SetEnv(U) ==
  /\ pc = "idle"
  /\ \E e \in U.env : e # env /\ env' = e
  /\ UNCHANGED <<cfg, pc, op, args, sent, resp, outcome, other>>

\* config.yaml is written, changed or removed between calls
SetCfg(U) ==
  /\ pc = "idle"
  /\ \E c \in U.cfg : c # cfg /\ cfg' = c
  /\ UNCHANGED <<env, pc, op, args, sent, resp, outcome, other>>

\* The transport serves two invocations at once: the worker that runs the
\* one is suspended and the worker that runs the other goes on.  Neither
\* frame changes; only the one the actions act on does.
Switch ==
  /\ Frame # other
  /\ pc' = other.pc
  /\ op' = other.op
  /\ args' = other.args
  /\ sent' = other.sent
  /\ resp' = other.resp
  /\ outcome' = other.outcome
  /\ other' = Frame
  /\ UNCHANGED <<env, cfg>>

\* ------------------------------------------------------------------
\* Inputs
\* ------------------------------------------------------------------
Blank == StrV(<<" ">>)
Empty == StrV(<<>>)

\* n copies of v
Rep(n, v) == [i \in 1..n |-> v]

\* all sequences over S of length at most n
SeqsUpTo(S, n) == UNION {[1..k -> S] : k \in 0..n}

\* values passed for a required string
TextInputs ==
  {StrV(<<"quantum">>), StrV(<<"DOI", ":", "10.1/xyz">>), StrV(<<" ", "id1", " ">>),
   Empty, Blank, None, IntV(5)}

\* values passed for a field selector
SelectorInputs ==
  {None, StrV(<<"title">>), Empty, Blank,
   ListV(<<>>), ListV(<<Blank, Empty>>),
   ListV(<<StrV(<<"a">>), StrV(<<" ", "b", " ">>), Empty, StrV(<<"c">>)>>),
   TupleV(<<StrV(<<"title">>), StrV(<<"year">>)>>), IntV(5)}

\* values passed for limit
LimitInputs ==
  {IntV(n) : n \in {-5, 0, 1, 2, 19, 20, 21, 99, 100, 101, 500}}
    \cup {None, StrV(<<"abc">>), StrV(<<" ", "7", " ">>), BoolV(TRUE)}

\* values passed for offset
OffsetInputs ==
  {IntV(n) : n \in {-5, -1, 0, 1, 40}} \cup {None, StrV(<<"abc">>)}

\* values passed for an optional plain string (venue, sort, year of search)
WordInputs == {None, StrV(<<"2023">>), Empty, Blank}

\* values passed for the year of search_papers_match
YearInputs == {None, IntV(2020), IntV(0), IntV(-1), StrV(<<"2020">>)}

\* values passed for a list of identifiers (bound 1000) or queries (bound 100)
ListInputs(bound) ==
  LET id == StrV(<<"id1">>)
  IN  {ListV(<<id, StrV(<<"id2">>)>>), TupleV(<<id>>), ListV(<<StrV(<<" ", "id1", " ">>)>>),
       ListV(<<>>), TupleV(<<>>), ListV(<<id, Empty>>), ListV(<<Blank, id>>),
       ListV(<<id, IntV(5)>>), ListV(<<None>>), id, None, IntV(5),
       ListV(Rep(bound, id)), ListV(Rep(bound + 1, id)), TupleV(Rep(bound + 1, id)),
       ListV(Rep(bound - 1, id) \o <<Blank>>)}

\* the environment variable: unset, or a key
EnvFew == {None, StrV(<<"k1">>)}

\* config.yaml: not there, or {"semantic_scholar": {"api_key": "k2"}}
CfgWith(api_key) ==
  CfgFile(TRUE, TRUE,
          DictV(<<StrV(<<"semantic_scholar">>), DictV(<<StrV(<<"api_key">>), api_key>>)>>))

CfgFew == {CfgFile(FALSE, FALSE, None), CfgWith(StrV(<<"k2">>))}

EnvMany == {None, Empty, Blank, StrV(<<"k1">>), StrV(<<" ", "k1", " ">>)}

CfgMany ==
  {CfgFile(FALSE, FALSE, None),
   CfgFile(TRUE, FALSE, None),
   CfgFile(TRUE, TRUE, None),
   CfgFile(TRUE, TRUE, ListV(<<StrV(<<"semantic_scholar">>)>>)),
   CfgFile(TRUE, TRUE, DictV(<<StrV(<<"other">>), StrV(<<"k2">>)>>)),
   CfgFile(TRUE, TRUE, DictV(<<StrV(<<"semantic_scholar">>), StrV(<<"k2">>)>>)),
   CfgFile(TRUE, TRUE, DictV(<<StrV(<<"semantic_scholar">>), DictV(<<>>)>>)),
   CfgWith(None), CfgWith(Empty), CfgWith(Blank), CfgWith(IntV(0)),
   CfgWith(StrV(<<"k2">>)), CfgWith(StrV(<<" ", "k2">>)), CfgWith(IntV(42))}

\* status codes around the two ends of [200,300)
StatusInputs == {199, 200, 299, 300, 429}

\* bodies: the JSON documents and a body that is not JSON
BodyInputs == {b.text : b \in JsonBodies} \cup {<<"<html>", " ", "busy">>}

\* every parameter varies; two credential sources
Wide ==
  [text |-> TextInputs, fields |-> SelectorInputs, selector |-> SelectorInputs,
   limit |-> LimitInputs, offset |-> OffsetInputs, year_str |-> WordInputs,
   year_int |-> YearInputs, flag |-> {None, BoolV(TRUE), BoolV(FALSE)},
   word |-> WordInputs, ids |-> ListInputs(MaxBatchIds),
   queries |-> ListInputs(MaxBulkQueries), env |-> EnvFew, cfg |-> CfgFew,
   status |-> StatusInputs, body |-> BodyInputs]

\* few arguments; every shape of the credential sources
Cred ==
  [text |-> {StrV(<<"quantum">>), Blank}, fields |-> {None},
   selector |-> {None}, limit |-> {IntV(500)}, offset |-> {IntV(-5)},
   year_str |-> {None}, year_int |-> {None}, flag |-> {None}, word |-> {None},
   ids |-> {ListV(<<StrV(<<"id1">>)>>), ListV(<<>>)},
   queries |-> {ListV(<<StrV(<<"quantum">>)>>), ListV(<<>>)},
   env |-> EnvMany, cfg |-> CfgMany, status |-> {200, 429},
   body |-> {<<"<html>", " ", "busy">>}]

\* few arguments; every short list as `fields`, three tuples as the other
\* selectors
SelectorEntries ==
  {StrV(<<"a">>), StrV(<<" ", "b", " ">>), StrV(<<"c">>), Empty, Blank}

Norm ==
  [Cred EXCEPT !.fields = {ListV(l) : l \in SeqsUpTo(SelectorEntries, MaxSeqLen)},
               !.selector = {TupleV(<<>>), TupleV(<<Blank>>),
                             TupleV(<<StrV(<<" ", "b", " ">>), Empty, StrV(<<"a">>)>>)},
               !.text = {StrV(<<"quantum">>)},
               !.ids = {ListV(<<StrV(<<"id1">>)>>)},
               !.queries = {ListV(<<StrV(<<"quantum">>)>>)},
               !.env = EnvFew, !.cfg = CfgFew, !.status = {200}]

\* one valid and one blank required argument, defaults for the rest; two
\* credential sources; a success and a failure response
Conc ==
  [Cred EXCEPT !.fields = {}, !.selector = {}, !.limit = {}, !.offset = {},
               !.env = EnvFew, !.cfg = CfgFew,
               !.body = {<<"<html>", " ", "busy">>,
                         <<"{", "\"", "message", "\"", ":", "\"", "rate", " ",
                           "limited", "\"", "}">>}]

\* JSON documents as an upstream can send them: a paper, a document with
\* nesting, escapes, literals, numbers in every notation and a repeated
\* name, an array, and a number beyond the range of a double
JsonDocs ==
  { <<"{", "\"", "paperId", "\"", ":", " ", "\"", "p1", "\"", ",",
      "\"", "year", "\"", ":", "2", "0", "2", "0", "}">>,
    <<"{", "\"", "title", "\"", ":", "\"", "caf", "\\u00e9", " ", "\\\"", "q", "\\\"",
      "\\n", "\\/", "\"", ",", " ",
      "\"", "authors", "\"", ":", "[", "{", "\"", "name", "\"", ":", "\"", "A", "\"", "}",
      ",", "{", "}", ",", "[", "]", "]", ",",
      "\"", "open", "\"", ":", "true", ",", "\"", "pdf", "\"", ":", "null", ",",
      "\"", "score", "\"", ":", "3", "0", "e", "1", "9", ",",
      "\"", "f", "\"", ":", "0", ".", "2", "5", ",",
      "\"", "h", "\"", ":", "2", "5", "e", "-", "7", ",",
      "\"", "a", "\"", ":", "1", ",", "\"", "a", "\"", ":", "2", "}", "\n">>,
    <<"[", "1", ".", "5", "E", "+", "3", ",", " ", "-", "1", "2", ",", " ",
      "\"", "a", ":", "b", ",", "c", "\"", "]">>,
    <<"{", "\"", "x", "\"", ":", "1", "e", "4", "0", "0", "}">> }

\* one valid and one blank required argument, defaults for the rest; success
\* and failure statuses; JSON documents and bodies that are not JSON
Json ==
  [Conc EXCEPT !.text = {StrV(<<"DOI", ":", "10.1/xyz">>), Blank},
               !.status = {200, 299, 429},
               !.body = JsonDocs \cup {<<"<html>", " ", "busy">>,
                                        <<"{", "\"", "a", "\"", "}">>}]

\* ------------------------------------------------------------------
\* Specifications
\* ------------------------------------------------------------------
Init == InitIn(Wide)

Next ==
  \/ get_paper(Wide)
  \/ get_papers_batch(Wide)
  \/ search_papers(Wide)
  \/ search_papers_bulk(Wide)
  \/ search_papers_match(Wide)
  \/ paper_autocomplete(Wide)
  \/ get_paper_authors(Wide)
  \/ get_paper_citations(Wide)
  \/ get_paper_references(Wide)
  \/ get_author(Wide)
  \/ get_authors_batch(Wide)
  \/ search_authors(Wide)
  \/ get_author_papers(Wide)
  \/ snippet_search(Wide)
  \/ Response(Wide)
  \/ Timeout
  \/ Finish
  \/ SetEnv(Wide)
  \/ SetCfg(Wide)

Spec == Init /\ [][Next]_vars

InitCred == InitIn(Cred)

NextCred ==
  \/ get_paper(Cred)
  \/ get_papers_batch(Cred)
  \/ search_papers(Cred)
  \/ search_papers_bulk(Cred)
  \/ search_papers_match(Cred)
  \/ paper_autocomplete(Cred)
  \/ get_paper_authors(Cred)
  \/ get_paper_citations(Cred)
  \/ get_paper_references(Cred)
  \/ get_author(Cred)
  \/ get_authors_batch(Cred)
  \/ search_authors(Cred)
  \/ get_author_papers(Cred)
  \/ snippet_search(Cred)
  \/ Response(Cred)
  \/ Timeout
  \/ Finish
  \/ SetEnv(Cred)
  \/ SetCfg(Cred)

SpecCred == InitCred /\ [][NextCred]_vars

InitNorm == InitIn(Norm)

NextNorm ==
  \/ get_paper(Norm)
  \/ get_papers_batch(Norm)
  \/ search_papers(Norm)
  \/ search_papers_bulk(Norm)
  \/ search_papers_match(Norm)
  \/ paper_autocomplete(Norm)
  \/ get_paper_authors(Norm)
  \/ get_paper_citations(Norm)
  \/ get_paper_references(Norm)
  \/ get_author(Norm)
  \/ get_authors_batch(Norm)
  \/ search_authors(Norm)
  \/ get_author_papers(Norm)
  \/ snippet_search(Norm)
  \/ Response(Norm)
  \/ Timeout
  \/ Finish
  \/ SetEnv(Norm)
  \/ SetCfg(Norm)

SpecNorm == InitNorm /\ [][NextNorm]_vars

\* two invocations interleaved in any order
InitConc == InitIn(Conc)

NextConc ==
  \/ get_paper(Conc)
  \/ get_papers_batch(Conc)
  \/ search_papers(Conc)
  \/ search_papers_bulk(Conc)
  \/ search_papers_match(Conc)
  \/ paper_autocomplete(Conc)
  \/ get_paper_authors(Conc)
  \/ get_paper_citations(Conc)
  \/ get_paper_references(Conc)
  \/ get_author(Conc)
  \/ get_authors_batch(Conc)
  \/ search_authors(Conc)
  \/ get_author_papers(Conc)
  \/ snippet_search(Conc)
  \/ Response(Conc)
  \/ Timeout
  \/ Finish
  \/ SetEnv(Conc)
  \/ SetCfg(Conc)
  \/ Switch

SpecConc == InitConc /\ [][NextConc]_vars

\* every kind of JSON document as the response
InitJson == InitIn(Json)

NextJson ==
  \/ get_paper(Json)
  \/ get_papers_batch(Json)
  \/ search_papers(Json)
  \/ search_papers_bulk(Json)
  \/ search_papers_match(Json)
  \/ paper_autocomplete(Json)
  \/ get_paper_authors(Json)
  \/ get_paper_citations(Json)
  \/ get_paper_references(Json)
  \/ get_author(Json)
  \/ get_authors_batch(Json)
  \/ search_authors(Json)
  \/ get_author_papers(Json)
  \/ snippet_search(Json)
  \/ Response(Json)
  \/ Timeout
  \/ Finish
  \/ SetEnv(Json)
  \/ SetCfg(Json)

SpecJson == InitJson /\ [][NextJson]_vars

\* ------------------------------------------------------------------
\* Vocabulary of the properties
\* ------------------------------------------------------------------
\* an invocation has started and not yet been handed back
Running == pc \in {"waiting", "done"}

\* the invocation raised before any request went out
FailedBeforeRequest == pc = "done" /\ outcome.kind \in {"ValueError", "TypeError"}

\* s without its leading and trailing whitespace tokens
Trim(s) ==
  LET inked == {i \in 1..Len(s) : s[i] # WS}
  IN  IF inked = {} THEN <<>>
      ELSE SubSeq(s, CHOOSE i \in inked : \A j \in inked : i <= j,
                     CHOOSE i \in inked : \A j \in inked : i >= j)

\* absent, empty or whitespace-only
IsBlank(v) ==
  \/ v.t \in {"none", "missing"}
  \/ v.t = "str" /\ \A i \in 1..Len(v.s) : v.s[i] = WS
  \/ v.t \in {"list", "tuple", "dict"} /\ v.l = <<>>

\* the value a request carries under key k, in its query or in its body
Carried(rq, k) == IF rq.params[k] # Missing THEN rq.params[k] ELSE rq.json[k]

\* the tools with a required string parameter, and that parameter
StringTools ==
  {"get_paper", "search_papers", "search_papers_match", "paper_autocomplete",
   "get_paper_authors", "get_paper_citations", "get_paper_references",
   "get_author", "search_authors", "get_author_papers", "snippet_search"}

RequiredString(tool) ==
  CASE tool \in {"get_paper", "get_paper_authors", "get_paper_citations",
                 "get_paper_references"} -> "paper_id"
    [] tool \in {"get_author", "get_author_papers"} -> "author_id"
    [] tool = "search_papers_match" -> "title"
    [] OTHER -> "query"

\* the tools with a required list parameter, that parameter and its bound
ListTools == {"get_papers_batch", "get_authors_batch", "search_papers_bulk"}

RequiredList(tool) ==
  CASE tool = "get_papers_batch" -> "paper_ids"
    [] tool = "get_authors_batch" -> "author_ids"
    [] OTHER -> "queries"

ListBound(tool) == IF tool = "search_papers_bulk" THEN 100 ELSE 1000

\* a list (list or tuple) of 1..bound strings that each hold a non-blank token
GoodList(v, bound) ==
  /\ v.t \in {"list", "tuple"}
  /\ Len(v.l) \in 1..bound
  /\ \A i \in 1..Len(v.l) :
       v.l[i].t = "str" /\ \E j \in 1..Len(v.l[i].s) : v.l[i].s[j] # WS

\* C1: a required string parameter that is "", whitespace or None ends the
\* call in an Invalid Argument failure with no request issued, for every
\* one of the eleven tools that has one.
C1_BlankStringRejected ==
  (Running /\ op \in StringTools /\ IsBlank(args[RequiredString(op)]))
    => (pc = "done" /\ outcome.kind = "ValueError" /\ sent = <<>>)

\* C2: a list argument that is not a list, is empty, is longer than the
\* bound or holds a non-string or blank element ends the call in an Invalid
\* Argument failure naming it, with no request issued; a list of 1..bound
\* non-blank strings is never rejected.
C2_ListValidation ==
  (Running /\ op \in ListTools) =>
    IF GoodList(args[RequiredList(op)], ListBound(op))
    THEN ~(outcome.kind = "ValueError" /\ outcome.param = RequiredList(op))
    ELSE /\ pc = "done"
         /\ outcome.kind = "ValueError"
         /\ outcome.param = RequiredList(op)
         /\ sent = <<>>

C2_Witness ==
  /\ op = "search_papers_bulk"
  /\ args["queries"].t = "list"
  /\ Len(args["queries"].l) = 101
  /\ outcome.kind = "ValueError"
  /\ sent = <<>>

\* the path of POST /paper/batch on the fixed base address
PaperBatchUrl ==
  <<"https:", "/", "/", "api.semanticscholar.org", "/", "graph", "/", "v1",
    "/", "paper", "/", "batch">>

\* every item of the list, trimmed
TrimmedItems(v) == [i \in 1..Len(v.l) |-> StrV(Trim(v.l[i].s))]

\* get_papers_batch was called with a valid id list and nothing else
BatchWithIdsOnly ==
  /\ Running
  /\ op = "get_papers_batch"
  /\ GoodList(args["paper_ids"], 1000)
  /\ args["fields"] = DefaultFields("get_papers_batch")

C4_NoBlankValueSent ==
  \A i \in 1..Len(sent) : \A k \in Keys :
    /\ sent[i].params[k] # Missing => ~IsBlank(sent[i].params[k])
    /\ sent[i].json[k] # Missing => ~IsBlank(sent[i].json[k])

\* the selector arguments and the key each one is sent under
SelectorKeys ==
  {<<"fields", "fields">>, <<"fields_of_study", "fieldsOfStudy">>,
   <<"authors", "authors">>}

\* the entries of a sequence, each trimmed, without the blank ones
KeptEntries(l) ==
  SelectSeq([i \in 1..Len(l) |-> Trim(l[i].s)], LAMBDA e : e # <<>>)

\* the entries with a comma between neighbours
RECURSIVE CommaJoined(_)
CommaJoined(parts) ==
  IF Len(parts) = 0 THEN <<>>
  ELSE IF Len(parts) = 1 THEN parts[1]
  ELSE CommaJoined(SubSeq(parts, 1, Len(parts) - 1)) \o <<",">> \o parts[Len(parts)]

\* a sequence whose items are all strings
IsStringSeq(v) ==
  v.t \in {"list", "tuple"} /\ \A i \in 1..Len(v.l) : v.l[i].t = "str"

\* C5: a field selector given as a sequence of strings is sent as its
\* entries, trimmed, blank ones dropped, comma-joined in the caller's order;
\* when nothing is left the key is not in the request.
C5_SequenceNormalized ==
  (Running /\ sent # <<>>) =>
    \A ak \in SelectorKeys :
      IsStringSeq(args[ak[1]]) =>
        LET kept == KeptEntries(args[ak[1]].l)
        IN  IF kept = <<>>
            THEN sent[1].params[ak[2]] = Missing /\ sent[1].json[ak[2]] = Missing
            ELSE Carried(sent[1], ak[2]) = StrV(CommaJoined(kept))

C5_Witness ==
  /\ pc = "waiting"
  /\ args["fields"] = ListV(<<StrV(<<"a">>), StrV(<<" ", "b", " ">>), Empty, StrV(<<"c">>)>>)
  /\ Carried(sent[1], "fields") = StrV(<<"a", ",", "b", ",", "c">>)

\* the tools that take limit, and those that take offset as well
LimitTools ==
  {"search_papers", "search_papers_bulk", "search_papers_match",
   "paper_autocomplete", "get_paper_authors", "get_paper_citations",
   "get_paper_references", "search_authors", "get_author_papers",
   "snippet_search"}

OffsetTools == LimitTools \ {"search_papers_match", "paper_autocomplete"}

LimitBoundOf(tool) == IF tool = "search_papers_match" THEN 20 ELSE 100

\* C6: for an integer limit the limit sent is limit brought into 1..B (B =
\* 20 for search_papers_match, 100 elsewhere): 1 below the range, B above
\* it, limit itself inside; for an integer offset the offset sent is
\* offset, or 0 when offset is negative.
C6_PagingClamped ==
  (Running /\ sent # <<>>) =>
    /\ (op \in LimitTools /\ args["limit"].t = "int") =>
         LET n == args["limit"].n
             B == LimitBoundOf(op)
             l == Carried(sent[1], "limit")
         IN  /\ l.t = "int"
             /\ l.n \in 1..B
             /\ n < 1 => l.n = 1
             /\ n > B => l.n = B
             /\ n \in 1..B => l.n = n
    /\ (op \in OffsetTools /\ args["offset"].t = "int") =>
         LET n == args["offset"].n
             o == Carried(sent[1], "offset")
         IN  /\ o.t = "int"
             /\ o.n >= 0
             /\ n < 0 => o.n = 0
             /\ n >= 0 => o.n = n

C6_Witness ==
  /\ pc = "waiting"
  /\ op = "search_papers_match"
  /\ args["limit"] = IntV(500)
  /\ Carried(sent[1], "limit") = IntV(20)

\* the strings and numbers a JSON value holds, keys included
RECURSIVE Leaves(_)
Leaves(v) ==
  CASE v.t = "str" -> {v.s}
    [] v.t = "int" -> {<<ToString(v.n)>>}
    [] v.t \in {"dict", "list"} -> UNION {Leaves(v.l[i]) : i \in 1..Len(v.l)}
    [] OTHER -> {}

\* a response with a status outside [200,300) has arrived
FailureResponse == pc = "done" /\ resp # NoResp /\ (resp.status < 200 \/ resp.status >= 300)

\* C7: a response whose status is outside [200,300) makes the call fail
\* with an Upstream Failure (RuntimeError) and return nothing; the message
\* holds the status code, the request URL and the upstream payload: every
\* string and number of the parsed JSON body, or the raw text of a body
\* that is not JSON.
C7_UpstreamFailure ==
  FailureResponse =>
    /\ outcome.kind = "RuntimeError"
    /\ outcome.data = Missing
    /\ outcome.text = <<>>
    /\ Contains(outcome.msg, <<ToString(resp.status)>>)
    /\ Contains(outcome.msg, sent[1].url)
    /\ IF \E b \in JsonBodies : b.text = resp.text
       THEN \A b \in JsonBodies :
              b.text = resp.text => \A leaf \in Leaves(b.value) : Contains(outcome.msg, leaf)
       ELSE Contains(outcome.msg, resp.text)

C7_Witness ==
  /\ FailureResponse
  /\ op = "search_papers"
  /\ args["query"] = StrV(<<"quantum">>)
  /\ resp.status = 429
  /\ outcome.kind = "RuntimeError"
  /\ Contains(outcome.msg, <<"429">>)
  /\ Contains(outcome.msg, <<"rate", " ", "limited">>)
  /\ Contains(outcome.msg, <<"paper", "/", "search">>)

\* C8: an invocation issues at most one request: none when it fails before
\* the request (validation), exactly one otherwise, and still exactly one
\* after the response, whatever the response was: nothing is retried.
C8_AtMostOneRequest ==
  /\ Len(sent) <= 1
  /\ pc = "idle" => sent = <<>>
  /\ pc = "waiting" => Len(sent) = 1
  /\ pc = "done" => Len(sent) = IF FailedBeforeRequest THEN 0 ELSE 1

C8_Witness ==
  /\ pc = "done"
  /\ resp.status = 429
  /\ outcome.kind = "RuntimeError"
  /\ Len(sent) = 1

\* the invocation ended in a failure
Failed == pc = "done" /\ outcome.kind # "return"

\* Invalid Argument: raised before any request
InvalidArgument == outcome.kind = "ValueError" /\ sent = <<>> /\ resp = NoResp

\* Upstream Failure: raised after a response with a status outside [200,300),
\* carrying status code, request URL and payload
UpstreamFailure ==
  /\ outcome.kind = "RuntimeError"
  /\ Len(sent) = 1
  /\ resp # NoResp
  /\ resp.status < 200 \/ resp.status >= 300
  /\ Contains(outcome.msg, <<ToString(resp.status)>>)
  /\ Contains(outcome.msg, sent[1].url)

TransportFailure == outcome.kind = "Timeout" /\ Len(sent) = 1 /\ resp = NoResp

ConversionFailure ==
  /\ outcome.kind = "TypeError"
  /\ sent = <<>>
  /\ resp = NoResp
  /\ outcome.param \in {"limit", "offset"}
  /\ args[outcome.param].t \notin {"int", "bool", "str"}

EnvIsSet == env.t = "str"

\* what config.yaml holds under semantic_scholar.api_key, Missing when the
\* file or the key is not there
NestedKey ==
  IF /\ cfg.exists
     /\ cfg.loads
     /\ cfg.data.t = "dict"
     /\ \E i \in 1..Len(cfg.data.l) :
          i % 2 = 1 /\ cfg.data.l[i] = StrV(<<"semantic_scholar">>)
  THEN LET i == CHOOSE j \in 1..Len(cfg.data.l) :
                  /\ j % 2 = 1
                  /\ cfg.data.l[j] = StrV(<<"semantic_scholar">>)
                  /\ \A h \in 1..(j - 1) :
                       ~(h % 2 = 1 /\ cfg.data.l[h] = StrV(<<"semantic_scholar">>))
           section == cfg.data.l[i + 1]
       IN  IF section.t = "dict" /\ Len(section.l) >= 2
              /\ section.l[1] = StrV(<<"api_key">>)
           THEN section.l[2]
           ELSE Missing
  ELSE Missing

\* the header that carries the credential, on the request of this call
KeyHeader == sent[1].headers["x-api-key"]

\* the value as the text str() gives, trimmed
TrimmedText(v) ==
  StrV(Trim(IF v.t = "int" THEN <<ToString(v.n)>> ELSE v.s))

\* an empty string, zero, None or no value at all
IsEmptyValue(v) ==
  \/ v.t \in {"none", "missing"}
  \/ v.t = "str" /\ v.s = <<>>
  \/ v.t = "int" /\ v.n = 0

\* C10 as claimed: the credential is the value of the environment variable
\* whenever that is set, otherwise the nested key of the configuration file
\* when the file provides one, otherwise absent; the header is on the
\* request exactly when a credential was resolved.  Read in the claim's
\* favour: a value counts with or without its surrounding whitespace, and
\* an empty value may or may not count as a credential.
C10_EnvThenFile ==
  (pc = "waiting") =>
    LET Resolves(v) ==
          \/ KeyHeader = TrimmedText(v)
          \/ KeyHeader = v
          \/ IsEmptyValue(TrimmedText(v)) /\ KeyHeader = Missing
          \/ IsEmptyValue(v) /\ KeyHeader = Missing
    IN  IF EnvIsSet THEN Resolves(env)
        ELSE IF NestedKey \notin {Missing, None} THEN Resolves(NestedKey)
        ELSE KeyHeader = Missing

\* C10 as amended: the credential is the trimmed value of the environment
\* variable when the variable is set and not empty (the file is then not
\* consulted); otherwise the nested key of the configuration file, as
\* trimmed text, when the file yields a non-empty one; otherwise absent.
\* The header is on the request exactly when the credential resolved is a
\* non-empty string, and the request goes out in either case.
C10_NonEmptyEnvThenFile ==
  (pc = "waiting") =>
    /\ Len(sent) = 1
    /\ LET credential ==
             IF EnvIsSet /\ env.s # <<>> THEN TrimmedText(env)
             ELSE IF ~IsEmptyValue(NestedKey) THEN TrimmedText(NestedKey)
             ELSE None
       IN  IF credential.t = "str" /\ credential.s # <<>>
           THEN KeyHeader = credential
           ELSE KeyHeader = Missing

C10_Witness ==
  /\ pc = "waiting"
  /\ env = Empty
  /\ cfg = CfgWith(StrV(<<" ", "k2">>))
  /\ KeyHeader = StrV(<<"k2">>)

\* the two invocations the transport has in hand
Invocations == {Frame, other}

\* a request without the header that carries the credential
Bare(rq) ==
  [method |-> rq.method, url |-> rq.url, params |-> rq.params,
   json |-> rq.json, timeout |-> rq.timeout]

\* the credential the sources hold at this moment (C10 as amended)
CredentialNow ==
  IF EnvIsSet /\ env.s # <<>> THEN TrimmedText(env)
  ELSE IF ~IsEmptyValue(NestedKey) THEN TrimmedText(NestedKey)
  ELSE None

\* C11: invocations are independent under any interleaving.  (1) A step of
\* one invocation leaves the other as it was, and a change of a credential
\* source leaves both as they were.  (2) The request that goes out on a
\* step carries the credential the sources hold at that step, whatever an
\* earlier or concurrent invocation resolved.  (3) Two invocations of the
\* same tool with the same arguments send the same request but for the
\* credential; if they also got the same response (or both none), they
\* produced the same result or failure.
C11_Independent ==
  [][ /\ \/ other' = other
         \/ other' = Frame /\ Frame' = other
      /\ (env' # env \/ cfg' # cfg) => (Frame' = Frame /\ other' = other)
      /\ (other' = other /\ sent = <<>> /\ sent' # <<>>) =>
           sent'[1].headers["x-api-key"] =
             IF CredentialNow.t = "str" /\ CredentialNow.s # <<>>
             THEN CredentialNow ELSE Missing
      /\ \A f \in Invocations' : \A g \in Invocations' :
           (f.pc # "idle" /\ g.pc # "idle" /\ f.op = g.op /\ f.args = g.args) =>
             /\ Len(f.sent) = Len(g.sent)
             /\ \A i \in 1..Len(f.sent) : Bare(f.sent[i]) = Bare(g.sent[i])
             /\ (f.pc = "done" /\ g.pc = "done" /\ f.resp = g.resp) =>
                  f.outcome = g.outcome
    ]_vars

\* two invocations of the same tool with the same arguments are both inside
\* their request, and the later one carries the credential that was set
\* after the earlier one went out
C11_Witness ==
  /\ pc = "waiting"
  /\ other.pc = "waiting"
  /\ op = other.op
  /\ args = other.args
  /\ KeyHeader = StrV(<<"k1">>)
  /\ other.sent[1].headers["x-api-key"] # KeyHeader
  /\ env = StrV(<<"k1">>)

\* a response with a status in [200,300) has arrived
SuccessResponse ==
  pc = "done" /\ resp # NoResp /\ 200 <= resp.status /\ resp.status < 300

\* the JSON value a text denotes (RFC 8259), numbers exact
JsonValue(text) == Decode(text, FALSE)

\* every number of the JSON value v is within the range of a double
RECURSIVE NumbersFit(_)
NumbersFit(v) ==
  CASE v.t = "number" ->
         float(1, Abs(v.n), v.l[1].n) = FloatV(Abs(v.n), v.l[1].n)
    [] v.t \in {"dict", "list"} -> \A i \in 1..Len(v.l) : NumbersFit(v.l[i])
    [] OTHER -> TRUE

\* C12: pass-through round trip: for every operation and every success
\* response whose body is a JSON value, the operation returns a text, and
\* that text decodes to exactly the JSON value of the body.
C12_RoundTrip ==
  (SuccessResponse /\ JsonValue(resp.text).ok) =>
    /\ outcome.kind = "return"
    /\ JsonValue(outcome.text).ok
    /\ JsonValue(outcome.text).v = JsonValue(resp.text).v

\* the round trip of the bodies whose numbers a double holds
RoundTripInRange ==
  (SuccessResponse /\ JsonValue(resp.text).ok /\ NumbersFit(JsonValue(resp.text).v)) =>
    /\ outcome.kind = "return"
    /\ JsonValue(outcome.text).ok
    /\ JsonValue(outcome.text).v = JsonValue(resp.text).v

\* get_paper("DOI:10.1/xyz") returned the re-encoded object of a body with
\* nesting, escapes and floats
RoundTripReached ==
  /\ SuccessResponse
  /\ op = "get_paper"
  /\ args["paper_id"] = StrV(<<"DOI", ":", "10.1/xyz">>)
  /\ JsonValue(resp.text).ok
  /\ Len(resp.text) > 40
  /\ outcome.text # resp.text
  /\ JsonValue(outcome.text).v = JsonValue(resp.text).v

\* C13: a response with a status in [200,300) makes the gateway return a
\* value, never fail: the value the JSON body denotes when the body is a
\* JSON document, otherwise a mapping whose single key "raw" holds the
\* text of the body.
C13_SuccessReturnsValue ==
  SuccessResponse =>
    /\ outcome.kind = "return"
    /\ IF \E b \in JsonBodies : b.text = resp.text
       THEN \A b \in JsonBodies : b.text = resp.text => outcome.data = b.value
       ELSE outcome.data = DictV(<<StrV(<<"raw">>), StrV(resp.text)>>)

\* the last success status came with a body that is not JSON, and the
\* gateway returned the fallback mapping
C13_Witness ==
  /\ SuccessResponse
  /\ resp.status = 299
  /\ resp.text = <<"<html>", " ", "busy">>
  /\ outcome.kind = "return"
  /\ outcome.data = DictV(<<StrV(<<"raw">>), StrV(<<"<html>", " ", "busy">>)>>)

====
